---- MODULE Spec2Model ----
(***************************************************************************)
(* Model of HTTPController (http_control.go): the SSE subscriber registry  *)
(* sseClients guarded by the mutex mu, the publisher BroadcastStatus and   *)
(* the per-connection streaming handler sseHandler.                        *)
(*                                                                         *)
(* A channel is identified with the connection that made it (one           *)
(* make(chan string, 1) per sseHandler invocation).  The snapshot that a   *)
(* BroadcastStatus call marshals is opaque to this code and is identified  *)
(* by the call: the message of a call is <<"publish", id>>, id being the   *)
(* position of the call in the order in which calls acquired mu.  The      *)
(* initial frame of a connection is <<"initial", s>>, s being the status   *)
(* GetStatus returned.                                                     *)
(*                                                                         *)
(* commandHandler touches no field of HTTPController except                *)
(* playerController, so it is modelled on its own (CmdSpec): one request   *)
(* is served at a time and what the handler did is recorded in resp: the   *)
(* WriteHeader calls, the Write calls, the PlayerController calls and      *)
(* whether r.Body.Close ran.  A text is a sequence of symbols; the quote   *)
(* and the backslash are the two symbols a JSON string cannot hold as they *)
(* are, every other symbol stands for itself.                              *)
(***************************************************************************)
EXTENDS Integers, Sequences, FiniteSets, TLC

NumConns == 2
NumPubs == 2
MaxPublishes == 2
NumStatus == 2
MaxErrLen == 2
MaxArgs == 2
ChanCap == 1

Conns == 1..NumConns
Pubs == 1..NumPubs
Status == 1..NumStatus

NoHolder == <<"none", 0>>
SseTask(c) == <<"sse", c>>
PubTask(p) == <<"pub", p>>

VARIABLES
    mu,            \* holder of c.mu, or NoHolder
    sseClients,    \* keys of the map c.sseClients
    chanBuf,       \* buffer of each clientChan
    closeCount,    \* number of close(clientChan) executed per channel
    deleteCount,   \* number of delete(c.sseClients, clientChan) executed
    hpc,           \* position of each sseHandler invocation
    flusherOk,     \* result of w.(http.Flusher) for the connection
    cancelled,     \* r.Context().Done() is closed
    frames,        \* event frames written to w, in order
    respStatus,    \* HTTP status code of the response (0: none yet)
    playerStatus,  \* what playerController.GetStatus() returns now
    ppc,           \* position of each BroadcastStatus caller
    pubId,         \* order number of the running call (by acquisition of mu)
    todo,          \* channels the range loop has still to visit
    pubSeq,        \* number of BroadcastStatus calls that acquired mu
    pubCalls,      \* number of BroadcastStatus calls made
    startSeq,      \* per connection: pubSeq when its handler was entered
    regSeq,        \* per connection: pubSeq when its channel was registered
    sendOnClosed,  \* a send was executed on a closed channel (panic)
    cpc,           \* position of the commandHandler invocation
    req,           \* the request commandHandler is serving
    resp           \* what commandHandler did to w, r.Body and the player

vars == <<mu, sseClients, chanBuf, closeCount, deleteCount, hpc, flusherOk,
          cancelled, frames, respStatus, playerStatus,
          ppc, pubId, todo, pubSeq, pubCalls, startSeq, regSeq,
          sendOnClosed, cpc, req, resp>>

hvars == <<hpc, flusherOk, cancelled, frames, respStatus>>
pvars == <<ppc, pubId, todo, pubSeq, pubCalls>>
cvars == <<sseClients, chanBuf, closeCount, deleteCount>>
cmdvars == <<cpc, req, resp>>

Active(c) == hpc[c] \notin {"idle", "done"}

NoRequest == [method |-> "none"]
NoResponse == [hdr |-> <<>>, body |-> <<>>, calls |-> <<>>, closed |-> FALSE]

Init ==
    /\ mu = NoHolder
    /\ sseClients = {}
    /\ chanBuf = [c \in Conns |-> <<>>]
    /\ closeCount = [c \in Conns |-> 0]
    /\ deleteCount = [c \in Conns |-> 0]
    /\ hpc = [c \in Conns |-> "idle"]
    /\ flusherOk = [c \in Conns |-> TRUE]
    /\ cancelled = [c \in Conns |-> FALSE]
    /\ frames = [c \in Conns |-> <<>>]
    /\ respStatus = [c \in Conns |-> 0]
    /\ playerStatus \in Status
    /\ ppc = [p \in Pubs |-> "idle"]
    /\ pubId = [p \in Pubs |-> 0]
    /\ todo = [p \in Pubs |-> {}]
    /\ pubSeq = 0
    /\ pubCalls = 0
    /\ startSeq = [c \in Conns |-> 0]
    /\ regSeq = [c \in Conns |-> 0]
    /\ sendOnClosed = FALSE
    /\ cpc = "idle"
    /\ req = NoRequest
    /\ resp = NoResponse

(***************************************************************************)
(* sync.Mutex                                                              *)
(***************************************************************************)
Lock(t) == mu = NoHolder /\ mu' = t
Unlock(t) == mu = t /\ mu' = NoHolder

(***************************************************************************)
(* The player, outside this file: its status changes at any time.          *)
(***************************************************************************)
StatusChange(s) ==
    /\ s # playerStatus
    /\ playerStatus' = s
    /\ UNCHANGED <<mu, cvars, hvars, pvars, startSeq, regSeq, cmdvars, sendOnClosed>>

(***************************************************************************)
(* BroadcastStatus                                                         *)
(***************************************************************************)
InitialFrame(s) == <<"initial", s>>
Snapshot(id) == <<"publish", id>>

\* the owning process calls BroadcastStatus(status)
BroadcastStatus_Call(p) ==
    /\ ppc[p] = "idle"
    /\ pubCalls < MaxPublishes
    /\ pubCalls' = pubCalls + 1
    /\ ppc' = [ppc EXCEPT ![p] = "lock"]
    /\ UNCHANGED <<mu, cvars, hvars, pubId, todo, pubSeq, playerStatus,
                   startSeq, regSeq, cmdvars, sendOnClosed>>

\* as BroadcastStatus_Lock, but the range loop runs without holding c.mu
BroadcastStatus_LockNoMutex(p) ==
    /\ ppc[p] = "lock"
    /\ pubSeq' = pubSeq + 1
    /\ pubId' = [pubId EXCEPT ![p] = pubSeq + 1]
    /\ todo' = [todo EXCEPT ![p] = sseClients]
    /\ ppc' = [ppc EXCEPT ![p] = IF sseClients = {} THEN "unlock" ELSE "send"]
    /\ UNCHANGED <<mu, cvars, hvars, pubCalls, playerStatus, startSeq, regSeq, cmdvars,
                   sendOnClosed>>

\* as BroadcastStatus_Lock, but the range loop goes over every channel ever
\* made instead of the keys of c.sseClients
BroadcastStatus_LockAllChannels(p) ==
    /\ ppc[p] = "lock"
    /\ Lock(PubTask(p))
    /\ pubSeq' = pubSeq + 1
    /\ pubId' = [pubId EXCEPT ![p] = pubSeq + 1]
    /\ todo' = [todo EXCEPT ![p] = {c \in Conns : hpc[c] # "idle"}]
    /\ ppc' = [ppc EXCEPT ![p] =
                  IF \A c \in Conns : hpc[c] = "idle" THEN "unlock" ELSE "send"]
    /\ UNCHANGED <<cvars, hvars, pubCalls, playerStatus, startSeq, regSeq,
                   cmdvars, sendOnClosed>>

\* c.mu.Lock(); json.Marshal(status) (cannot fail for PlayerStatus);
\* the range statement starts over the keys of c.sseClients
BroadcastStatus_Lock(p) ==
    /\ ppc[p] = "lock"
    /\ Lock(PubTask(p))
    /\ pubSeq' = pubSeq + 1
    /\ pubId' = [pubId EXCEPT ![p] = pubSeq + 1]
    /\ todo' = [todo EXCEPT ![p] = sseClients]
    /\ ppc' = [ppc EXCEPT ![p] = IF sseClients = {} THEN "unlock" ELSE "send"]
    /\ UNCHANGED <<cvars, hvars, pubCalls, playerStatus, startSeq, regSeq, cmdvars,
                   sendOnClosed>>

\* as BroadcastStatus_Send, but the send does not look at the room left in
\* the channel
BroadcastStatus_SendUnbounded(p, c) ==
    /\ ppc[p] = "send"
    /\ c \in todo[p]
    /\ todo' = [todo EXCEPT ![p] = @ \ {c}]
    /\ ppc' = [ppc EXCEPT ![p] = IF todo[p] = {c} THEN "unlock" ELSE "send"]
    /\ IF closeCount[c] > 0
         THEN /\ sendOnClosed' = TRUE
              /\ UNCHANGED chanBuf
         ELSE /\ UNCHANGED sendOnClosed
              /\ chanBuf' = [chanBuf EXCEPT
                                ![c] = Append(@, Snapshot(pubId[p]))]
    /\ UNCHANGED <<mu, sseClients, closeCount, deleteCount, hvars, pubId,
                   pubSeq, pubCalls, playerStatus, startSeq, regSeq, cmdvars>>

\* as BroadcastStatus_Send, but the send blocks while the channel is full
BroadcastStatus_SendBlocking(p, c) ==
    /\ ppc[p] = "send"
    /\ c \in todo[p]
    /\ Len(chanBuf[c]) < ChanCap
    /\ todo' = [todo EXCEPT ![p] = @ \ {c}]
    /\ ppc' = [ppc EXCEPT ![p] = IF todo[p] = {c} THEN "unlock" ELSE "send"]
    /\ IF closeCount[c] > 0
         THEN /\ sendOnClosed' = TRUE
              /\ UNCHANGED chanBuf
         ELSE /\ UNCHANGED sendOnClosed
              /\ chanBuf' = [chanBuf EXCEPT
                                ![c] = Append(@, Snapshot(pubId[p]))]
    /\ UNCHANGED <<mu, sseClients, closeCount, deleteCount, hvars, pubId,
                   pubSeq, pubCalls, playerStatus, startSeq, regSeq, cmdvars>>

\* as BroadcastStatus_Send, but a full channel ends the range loop
BroadcastStatus_SendAbortOnFull(p, c) ==
    /\ ppc[p] = "send"
    /\ c \in todo[p]
    /\ todo' = [todo EXCEPT ![p] = @ \ {c}]
    /\ ppc' = [ppc EXCEPT ![p] =
                  IF todo[p] = {c} \/ Len(chanBuf[c]) >= ChanCap
                    THEN "unlock" ELSE "send"]
    /\ IF closeCount[c] > 0
         THEN /\ sendOnClosed' = TRUE
              /\ UNCHANGED chanBuf
         ELSE /\ UNCHANGED sendOnClosed
              /\ IF Len(chanBuf[c]) < ChanCap
                   THEN chanBuf' = [chanBuf EXCEPT
                                      ![c] = Append(@, Snapshot(pubId[p]))]
                   ELSE UNCHANGED chanBuf
    /\ UNCHANGED <<mu, sseClients, closeCount, deleteCount, hvars, pubId,
                   pubSeq, pubCalls, playerStatus, startSeq, regSeq, cmdvars>>

\* one iteration of the range loop: select { case clientChan <- ...: default: }
BroadcastStatus_Send(p, c) ==
    /\ ppc[p] = "send"
    /\ c \in todo[p]
    /\ todo' = [todo EXCEPT ![p] = @ \ {c}]
    /\ ppc' = [ppc EXCEPT ![p] = IF todo[p] = {c} THEN "unlock" ELSE "send"]
    /\ IF closeCount[c] > 0
         THEN /\ sendOnClosed' = TRUE
              /\ UNCHANGED chanBuf
         ELSE /\ UNCHANGED sendOnClosed
              /\ IF Len(chanBuf[c]) < ChanCap
                   THEN chanBuf' = [chanBuf EXCEPT
                                      ![c] = Append(@, Snapshot(pubId[p]))]
                   ELSE UNCHANGED chanBuf
    /\ UNCHANGED <<mu, sseClients, closeCount, deleteCount, hvars, pubId,
                   pubSeq, pubCalls, playerStatus, startSeq, regSeq, cmdvars>>

\* deferred c.mu.Unlock() and return: the locals of the call are gone
BroadcastStatus_Unlock(p) ==
    /\ ppc[p] = "unlock"
    /\ Unlock(PubTask(p))
    /\ ppc' = [ppc EXCEPT ![p] = "idle"]
    /\ pubId' = [pubId EXCEPT ![p] = 0]
    /\ UNCHANGED <<cvars, hvars, todo, pubSeq, pubCalls, playerStatus,
                   startSeq, regSeq, cmdvars, sendOnClosed>>


(***************************************************************************)
(* sseHandler.  A step that touches only the handler's own locals and its  *)
(* own response writer is taken together with the step before it.          *)
(***************************************************************************)
\* a GET /api/v1/events request arrives: the headers are set and
\* clientChan := make(chan string, 1); fl is whether w is an http.Flusher
sseHandler_Start(c, fl) ==
    /\ hpc[c] = "idle"
    /\ flusherOk' = [flusherOk EXCEPT ![c] = fl]
    /\ startSeq' = [startSeq EXCEPT ![c] = pubSeq]
    /\ hpc' = [hpc EXCEPT ![c] = "lockReg"]
    /\ UNCHANGED <<mu, cvars, cancelled, frames, respStatus, pvars,
                   playerStatus, regSeq, sendOnClosed, cmdvars>>

\* c.mu.Lock() before the insert
sseHandler_LockReg(c) ==
    /\ hpc[c] = "lockReg"
    /\ Lock(SseTask(c))
    /\ hpc' = [hpc EXCEPT ![c] = "register"]
    /\ UNCHANGED <<cvars, flusherOk, cancelled, frames, respStatus, pvars,
                   playerStatus, startSeq, regSeq, cmdvars, sendOnClosed>>

\* as sseHandler_Register, but c.mu is not unlocked after the insert
sseHandler_RegisterKeepLock(c) ==
    /\ hpc[c] = "register"
    /\ sseClients' = sseClients \cup {c}
    /\ regSeq' = [regSeq EXCEPT ![c] = pubSeq]
    /\ IF flusherOk[c]
         THEN /\ hpc' = [hpc EXCEPT ![c] = "initial"]
              /\ UNCHANGED respStatus
         ELSE /\ hpc' = [hpc EXCEPT ![c] = "deferLock"]
              /\ respStatus' = [respStatus EXCEPT ![c] = 500]
    /\ UNCHANGED <<mu, chanBuf, closeCount, deleteCount, flusherOk, cancelled,
                   frames, pvars, playerStatus, startSeq, sendOnClosed,
                   cmdvars>>

\* as sseHandler_Register, but the result of w.(http.Flusher) is not looked at
sseHandler_RegisterIgnoreFlusher(c) ==
    /\ hpc[c] = "register"
    /\ sseClients' = sseClients \cup {c}
    /\ regSeq' = [regSeq EXCEPT ![c] = pubSeq]
    /\ Unlock(SseTask(c))
    /\ hpc' = [hpc EXCEPT ![c] = "initial"]
    /\ UNCHANGED <<chanBuf, closeCount, deleteCount, flusherOk, cancelled,
                   frames, respStatus, pvars, playerStatus, startSeq,
                   sendOnClosed, cmdvars>>

\* as sseHandler_Register, but the cleanup is not deferred: the early
\* return leaves without it
sseHandler_RegisterNoDefer(c) ==
    /\ hpc[c] = "register"
    /\ sseClients' = sseClients \cup {c}
    /\ regSeq' = [regSeq EXCEPT ![c] = pubSeq]
    /\ Unlock(SseTask(c))
    /\ IF flusherOk[c]
         THEN /\ hpc' = [hpc EXCEPT ![c] = "initial"]
              /\ UNCHANGED respStatus
         ELSE /\ hpc' = [hpc EXCEPT ![c] = "done"]
              /\ respStatus' = [respStatus EXCEPT ![c] = 500]
    /\ UNCHANGED <<chanBuf, closeCount, deleteCount, flusherOk, cancelled,
                   frames, pvars, playerStatus, startSeq, sendOnClosed,
                   cmdvars>>

\* c.sseClients[clientChan] = struct{}{}; c.mu.Unlock(); the cleanup is
\* deferred; flusher, ok := w.(http.Flusher);
\* if !ok { http.Error(w, ..., 500); return }
sseHandler_Register(c) ==
    /\ hpc[c] = "register"
    /\ sseClients' = sseClients \cup {c}
    /\ regSeq' = [regSeq EXCEPT ![c] = pubSeq]
    /\ Unlock(SseTask(c))
    /\ IF flusherOk[c]
         THEN /\ hpc' = [hpc EXCEPT ![c] = "initial"]
              /\ UNCHANGED respStatus
         ELSE /\ hpc' = [hpc EXCEPT ![c] = "deferLock"]
              /\ respStatus' = [respStatus EXCEPT ![c] = 500]
    /\ UNCHANGED <<chanBuf, closeCount, deleteCount, flusherOk, cancelled,
                   frames, pvars, playerStatus, startSeq, sendOnClosed,
                   cmdvars>>

\* initialStatus := c.playerController.GetStatus();
\* fmt.Fprintf(w, "data: %s\n\n", initialData); flusher.Flush()
sseHandler_Initial(c) ==
    /\ hpc[c] = "initial"
    /\ frames' = [frames EXCEPT ![c] = Append(@, InitialFrame(playerStatus))]
    /\ respStatus' = [respStatus EXCEPT ![c] = 200]
    /\ hpc' = [hpc EXCEPT ![c] = "loop"]
    /\ UNCHANGED <<mu, cvars, flusherOk, cancelled, pvars, playerStatus,
                   startSeq, regSeq, cmdvars, sendOnClosed>>

\* as sseHandler_Relay, but the received message is not written
sseHandler_RelayNoWrite(c) ==
    /\ hpc[c] = "loop"
    /\ Len(chanBuf[c]) > 0
    /\ chanBuf' = [chanBuf EXCEPT ![c] = Tail(@)]
    /\ UNCHANGED <<mu, sseClients, closeCount, deleteCount, hpc, flusherOk,
                   cancelled, frames, respStatus, pvars, playerStatus,
                   startSeq, regSeq, cmdvars, sendOnClosed>>

\* as sseHandler_Relay, but the relay loop is entered before the initial push
sseHandler_RelayBeforeInitial(c) ==
    /\ hpc[c] \in {"initial", "loop"}
    /\ Len(chanBuf[c]) > 0
    /\ frames' = [frames EXCEPT ![c] = Append(@, Head(chanBuf[c]))]
    /\ chanBuf' = [chanBuf EXCEPT ![c] = Tail(@)]
    /\ UNCHANGED <<mu, sseClients, closeCount, deleteCount, hpc, flusherOk,
                   cancelled, respStatus, pvars, playerStatus, startSeq, regSeq, cmdvars,
                   sendOnClosed>>

\* as sseHandler_Relay, but the message is written without being taken off
\* the channel
sseHandler_RelayNoConsume(c) ==
    /\ hpc[c] = "loop"
    /\ Len(chanBuf[c]) > 0
    /\ frames' = [frames EXCEPT ![c] = Append(@, Head(chanBuf[c]))]
    /\ UNCHANGED <<mu, cvars, hpc, flusherOk, cancelled, respStatus, pvars,
                   playerStatus, startSeq, regSeq, cmdvars, sendOnClosed>>

\* select case data := <-clientChan:
\* fmt.Fprintf(w, "data: %s\n\n", data); flusher.Flush()
sseHandler_Relay(c) ==
    /\ hpc[c] = "loop"
    /\ Len(chanBuf[c]) > 0
    /\ frames' = [frames EXCEPT ![c] = Append(@, Head(chanBuf[c]))]
    /\ chanBuf' = [chanBuf EXCEPT ![c] = Tail(@)]
    /\ UNCHANGED <<mu, sseClients, closeCount, deleteCount, hpc, flusherOk,
                   cancelled, respStatus, pvars, playerStatus, startSeq, regSeq, cmdvars,
                   sendOnClosed>>

\* as sseHandler_Done, but the cancellation is looked at only when a message
\* is there to receive
sseHandler_DoneOnlyWithMessage(c) ==
    /\ hpc[c] = "loop"
    /\ cancelled[c]
    /\ Len(chanBuf[c]) > 0
    /\ hpc' = [hpc EXCEPT ![c] = "deferLock"]
    /\ UNCHANGED <<mu, cvars, flusherOk, cancelled, frames, respStatus, pvars,
                   playerStatus, startSeq, regSeq, cmdvars, sendOnClosed>>

\* as sseHandler_Done, but the channel is closed on leaving the loop, before
\* the deferred delete
sseHandler_DoneCloseFirst(c) ==
    /\ hpc[c] = "loop"
    /\ cancelled[c]
    /\ closeCount' = [closeCount EXCEPT ![c] = @ + 1]
    /\ hpc' = [hpc EXCEPT ![c] = "deferLock"]
    /\ UNCHANGED <<mu, sseClients, chanBuf, deleteCount, flusherOk, cancelled,
                   frames, respStatus, pvars, playerStatus, startSeq, regSeq, cmdvars,
                   sendOnClosed>>

\* select case <-r.Context().Done(): return
sseHandler_Done(c) ==
    /\ hpc[c] = "loop"
    /\ cancelled[c]
    /\ hpc' = [hpc EXCEPT ![c] = "deferLock"]
    /\ UNCHANGED <<mu, cvars, flusherOk, cancelled, frames, respStatus, pvars,
                   playerStatus, startSeq, regSeq, cmdvars, sendOnClosed>>

\* as sseHandler_DeferLock, but the deferred function does not take c.mu
sseHandler_DeferLockNoMutex(c) ==
    /\ hpc[c] = "deferLock"
    /\ hpc' = [hpc EXCEPT ![c] = "deferDelete"]
    /\ UNCHANGED <<mu, cvars, flusherOk, cancelled, frames, respStatus, pvars,
                   playerStatus, startSeq, regSeq, cmdvars, sendOnClosed>>

\* deferred function: c.mu.Lock()
sseHandler_DeferLock(c) ==
    /\ hpc[c] = "deferLock"
    /\ Lock(SseTask(c))
    /\ hpc' = [hpc EXCEPT ![c] = "deferDelete"]
    /\ UNCHANGED <<cvars, flusherOk, cancelled, frames, respStatus, pvars,
                   playerStatus, startSeq, regSeq, cmdvars, sendOnClosed>>

\* as sseHandler_DeferDelete, but the delete is forgotten
sseHandler_DeferNoDelete(c) ==
    /\ hpc[c] = "deferDelete"
    /\ Unlock(SseTask(c))
    /\ hpc' = [hpc EXCEPT ![c] = "close"]
    /\ UNCHANGED <<cvars, flusherOk, cancelled, frames, respStatus, pvars,
                   playerStatus, startSeq, regSeq, cmdvars, sendOnClosed>>

\* deferred function: delete(c.sseClients, clientChan); c.mu.Unlock()
sseHandler_DeferDelete(c) ==
    /\ hpc[c] = "deferDelete"
    /\ sseClients' = sseClients \ {c}
    /\ deleteCount' = [deleteCount EXCEPT ![c] = @ + 1]
    /\ Unlock(SseTask(c))
    /\ hpc' = [hpc EXCEPT ![c] = "close"]
    /\ UNCHANGED <<chanBuf, closeCount, flusherOk, cancelled, frames,
                   respStatus, pvars, playerStatus, startSeq, regSeq, cmdvars, sendOnClosed>>

\* deferred function: close(clientChan); the handler returns
sseHandler_Close(c) ==
    /\ hpc[c] = "close"
    /\ closeCount' = [closeCount EXCEPT ![c] = @ + 1]
    /\ hpc' = [hpc EXCEPT ![c] = "done"]
    /\ UNCHANGED <<mu, sseClients, chanBuf, deleteCount, flusherOk, cancelled,
                   frames, respStatus, pvars, playerStatus, startSeq, regSeq, cmdvars,
                   sendOnClosed>>

\* the client disconnects or the server shuts down: the context of the
\* request is cancelled
Cancel(c) ==
    /\ Active(c)
    /\ ~cancelled[c]
    /\ cancelled' = [cancelled EXCEPT ![c] = TRUE]
    /\ UNCHANGED <<mu, cvars, hpc, flusherOk, frames, respStatus, pvars,
                   playerStatus, startSeq, regSeq, cmdvars, sendOnClosed>>

Next ==
    \/ \E s \in Status : StatusChange(s)
    \/ \E p \in Pubs : BroadcastStatus_Call(p)
    \/ \E p \in Pubs : BroadcastStatus_Lock(p)
    \/ \E p \in Pubs, c \in Conns : BroadcastStatus_Send(p, c)
    \/ \E p \in Pubs : BroadcastStatus_Unlock(p)
    \/ \E c \in Conns, fl \in BOOLEAN : sseHandler_Start(c, fl)
    \/ \E c \in Conns : sseHandler_LockReg(c)
    \/ \E c \in Conns : sseHandler_Register(c)
    \/ \E c \in Conns : sseHandler_Initial(c)
    \/ \E c \in Conns : sseHandler_Relay(c)
    \/ \E c \in Conns : sseHandler_Done(c)
    \/ \E c \in Conns : sseHandler_DeferLock(c)
    \/ \E c \in Conns : sseHandler_DeferDelete(c)
    \/ \E c \in Conns : sseHandler_Close(c)
    \/ \E c \in Conns : Cancel(c)

Spec == Init /\ [][Next]_vars

(***************************************************************************)
(* Scheduling.  A goroutine that can run is eventually run.  For a         *)
(* goroutine waiting in sync.Mutex.Lock the runtime guarantees more than   *)
(* is assumed here (a waiter that fails to acquire the mutex for 1ms       *)
(* switches it to starvation mode, in which Unlock hands it to the waiter  *)
(* at the front of the queue): weak fairness only says that a waiter gets  *)
(* a mutex that stays free.  PubFair makes no assumption on the handlers   *)
(* outside their critical sections: a handler may stay forever in front of *)
(* its select or of a write to a stalled connection.                       *)
(***************************************************************************)
PubFair ==
    /\ \A p \in Pubs : WF_vars(BroadcastStatus_Lock(p))
    /\ \A p \in Pubs : WF_vars(\E c \in Conns : BroadcastStatus_Send(p, c))
    /\ \A p \in Pubs : WF_vars(BroadcastStatus_Unlock(p))
    /\ \A c \in Conns : WF_vars(sseHandler_Register(c))
    /\ \A c \in Conns : WF_vars(sseHandler_DeferDelete(c))

HandlerFair ==
    /\ \A c \in Conns : WF_vars(sseHandler_LockReg(c))
    /\ \A c \in Conns : WF_vars(sseHandler_Initial(c))
    /\ \A c \in Conns : WF_vars(sseHandler_Relay(c))
    /\ \A c \in Conns : WF_vars(sseHandler_Done(c))
    /\ \A c \in Conns : WF_vars(sseHandler_DeferLock(c))
    /\ \A c \in Conns : WF_vars(sseHandler_Close(c))

PubFairSpec == Spec /\ PubFair
FairSpec == Spec /\ PubFair /\ HandlerFair

(***************************************************************************)
(* Properties                                                              *)
(***************************************************************************)
Closed(c) == closeCount[c] > 0

\* C1: BroadcastStatus never sends on a closed channel: a channel is closed
\* only after its handler deleted it from sseClients, and the range loop
\* visits, while holding mu, only channels that are in sseClients.
C1_NoSendOnClosedChannel ==
    /\ ~sendOnClosed
    /\ \A c \in Conns : Closed(c) => deleteCount[c] > 0 /\ c \notin sseClients
    /\ \A p \in Pubs : ppc[p] = "send" =>
          /\ mu = PubTask(p)
          /\ todo[p] \subseteq sseClients
          /\ \A c \in todo[p] : ~Closed(c)

\* a range loop is under way after one connection closed its channel and
\* while another is in the middle of its cleanup
C1_Witness ==
    \E p \in Pubs, c, d \in Conns :
        /\ ppc[p] = "send" /\ todo[p] # {}
        /\ Closed(c)
        /\ hpc[d] = "deferLock"

\* C2: every channel in sseClients is open, every closed channel is absent
\* from sseClients, and no channel is closed twice.
C2_RegisteredChannelsOpen ==
    \A c \in Conns :
        /\ c \in sseClients => ~Closed(c)
        /\ Closed(c) => c \notin sseClients
        /\ closeCount[c] <= 1

\* one channel is closed while another is registered
C2_Witness ==
    \E c, d \in Conns : Closed(c) /\ d \in sseClients

\* C9: a handler that has returned has deleted its channel from sseClients
\* exactly once and closed it exactly once, on the exit by cancellation and
\* on the early return without a flusher; before it returns it has done
\* neither more than once.
C9_CleanupExactlyOnce ==
    \A c \in Conns :
        /\ deleteCount[c] <= 1 /\ closeCount[c] <= 1
        /\ hpc[c] = "done" =>
              /\ deleteCount[c] = 1
              /\ closeCount[c] = 1
              /\ c \notin sseClients

\* one handler has returned from the relay loop and one by the early return
C9_Witness ==
    \E c, d \in Conns :
        /\ hpc[c] = "done" /\ flusherOk[c] /\ Len(frames[c]) > 0
        /\ hpc[d] = "done" /\ ~flusherOk[d]

\* C4: an iteration of the range loop for subscriber c enqueues the snapshot
\* if the buffer of c is empty and leaves the buffer as it is if it is full,
\* touches no other channel, and the loop ends only when every subscriber
\* registered during the call has had its iteration, full or not.
C4_SendStep ==
    \A p \in Pubs, c \in Conns :
        (ppc[p] = "send" /\ c \in todo[p] /\ todo'[p] = todo[p] \ {c}) =>
            /\ IF chanBuf[c] = <<>>
                 THEN chanBuf'[c] = <<Snapshot(pubId[p])>>
                 ELSE chanBuf'[c] = chanBuf[c]
            /\ \A d \in Conns \ {c} : chanBuf'[d] = chanBuf[d]
            /\ ppc'[p] = "unlock" => todo'[p] = {}

C4_AllVisited ==
    \A p \in Pubs :
        /\ ppc[p] = "send" => todo[p] # {} /\ todo[p] \subseteq sseClients
        /\ ppc[p] = "unlock" => todo[p] = {}

\* C4: every iteration behaves as C4_SendStep says and no range loop ends
\* before all its subscribers had theirs
C4_FullSubscriberIsSkipped == [][C4_SendStep]_vars /\ []C4_AllVisited

\* a call has finished its range loop: the full channel of c still holds an
\* older snapshot and the channel of d holds the snapshot of this call
C4_Witness ==
    \E p \in Pubs, c, d \in Conns :
        /\ ppc[p] = "unlock"
        /\ {c, d} \subseteq sseClients
        /\ chanBuf[c] # <<>> /\ chanBuf[c] # <<Snapshot(pubId[p])>>
        /\ chanBuf[d] = <<Snapshot(pubId[p])>>

\* C5: a connection with a flusher writes exactly one initial frame, as its
\* first frame and before every frame of a BroadcastStatus call (also of a
\* call that ran between the registration and the status query), carrying
\* what GetStatus returns when the handler queries it.
PastInitial(c) ==
    flusherOk[c] /\ hpc[c] \in {"loop", "deferLock", "deferDelete", "close", "done"}

C5_InitialFirst ==
    \A c \in Conns :
        IF PastInitial(c)
          THEN /\ Len(frames[c]) >= 1
               /\ frames[c][1][1] = "initial"
               /\ \A i \in 2..Len(frames[c]) : frames[c][i][1] = "publish"
          ELSE frames[c] = <<>>

C5_InitialStep ==
    \A c \in Conns :
        (hpc[c] = "initial" /\ hpc'[c] # "initial") =>
            frames'[c] = <<InitialFrame(playerStatus)>>

\* C5: the initial frame is the first and only initial frame, and it is
\* the status of the player at the query
C5_OneInitialFrameFirst == []C5_InitialFirst /\ [][C5_InitialStep]_vars

\* a snapshot published after the registration of c waits in its channel
\* while the initial frame is not yet written, and d has written its
\* initial frame followed by a published one
C5_Witness ==
    \E c, d \in Conns :
        /\ hpc[c] = "initial" /\ chanBuf[c] # <<>>
        /\ Len(frames[d]) >= 2

\* C6: a connection writes at most N+1 frames, N being the number of
\* BroadcastStatus calls that acquired mu since its handler was entered.
PublishesSince(c) == pubSeq - startSeq[c]

C6_AtMostNPlusOneFrames ==
    \A c \in Conns :
        hpc[c] # "idle" => Len(frames[c]) <= PublishesSince(c) + 1

\* the bound is attained with two publishes
C6_Witness ==
    \E c \in Conns :
        PublishesSince(c) >= 2 /\ Len(frames[c]) = PublishesSince(c) + 1

\* C10: the published frames of a connection are in the order in which
\* their BroadcastStatus calls acquired mu.
C10_FramesInPublishOrder ==
    \A c \in Conns :
        \A i, j \in 2..Len(frames[c]) :
            (i < j /\ frames[c][i][1] = "publish" /\ frames[c][j][1] = "publish")
                => frames[c][i][2] < frames[c][j][2]

\* a connection has written the frames of two calls while two callers were
\* at work
C10_Witness ==
    \E c \in Conns, p \in Pubs :
        /\ Len(frames[c]) >= 3
        /\ ppc[p] # "idle"

\* C3: every BroadcastStatus call returns, with any number of subscribers and
\* without any subscriber ever reading its channel: the caller gets mu and
\* then only makes non-blocking send attempts.
C3_BroadcastReturns ==
    \A p \in Pubs : (ppc[p] # "idle") ~> (ppc[p] = "idle")

\* the second call has finished its range loop while every connection is
\* registered with a full channel
C3_Witness ==
    \E p \in Pubs :
        /\ ppc[p] = "unlock" /\ pubId[p] = 2
        /\ \A c \in Conns : c \in sseClients /\ Len(chanBuf[c]) = ChanCap

\* C7: the snapshot of a call (so also of the most recent one) is written
\* to every streaming connection that is registered with room in its buffer
\* when the call comes to it, unless the context of the connection is
\* cancelled before the relay loop has written it.
Written(c, m) == \E i \in 1..Len(frames[c]) : frames[c][i] = m

AboutToSend(c, id) ==
    \E p \in Pubs : ppc[p] = "send" /\ pubId[p] = id /\ c \in todo[p]

C7_DeliveredUnlessCancelled ==
    \A c \in Conns, id \in 1..MaxPublishes :
        (AboutToSend(c, id) /\ Len(chanBuf[c]) < ChanCap /\ flusherOk[c])
            ~> (Written(c, Snapshot(id)) \/ cancelled[c])

\* C7 as stated: the snapshot is written to every connection that is active
\* (registered, not cancelled) with room in its buffer at the publish.
C7_DeliveredIfNotFull ==
    \A c \in Conns, id \in 1..MaxPublishes :
        (/\ AboutToSend(c, id) /\ Len(chanBuf[c]) < ChanCap
         /\ flusherOk[c] /\ ~cancelled[c])
            ~> Written(c, Snapshot(id))

\* the most recent snapshot is on the wire of c, and d, whose buffer was
\* full, still holds the one before
C7_Witness ==
    \E c, d \in Conns :
        /\ pubSeq = 2 /\ \A p \in Pubs : ppc[p] = "idle"
        /\ ~cancelled[c] /\ Written(c, Snapshot(2))
        /\ d \in sseClients /\ chanBuf[d] = <<Snapshot(1)>>

\* C8: once the context of a connection is cancelled its channel is deleted
\* from sseClients; from then on no range loop has the channel among the
\* keys it visits, nothing changes the channel's buffer, and every
\* BroadcastStatus call still returns.
Removed(c) == deleteCount[c] > 0

C8_RemovedUntouched ==
    \A c \in Conns :
        Removed(c) => c \notin sseClients /\ \A p \in Pubs : c \notin todo[p]

C8_RemovedStep ==
    \A c \in Conns : Removed(c) => chanBuf'[c] = chanBuf[c]

\* C8: removal follows cancellation, a removed channel is left alone, and
\* calls go on returning
C8_CancelledIsRemoved ==
    /\ \A c \in Conns : cancelled[c] ~> Removed(c)
    /\ []C8_RemovedUntouched
    /\ [][C8_RemovedStep]_vars
    /\ \A p \in Pubs : (ppc[p] # "idle") ~> (ppc[p] = "idle")

\* a call that acquired mu after the cancelled connection c was removed has
\* finished its range loop and delivered to d
C8_Witness ==
    \E p \in Pubs, c, d \in Conns :
        /\ cancelled[c] /\ flusherOk[c] /\ Removed(c)
        /\ ppc[p] = "unlock"
        /\ chanBuf[d] = <<Snapshot(pubId[p])>>

(***************************************************************************)
(* commandHandler                                                          *)
(***************************************************************************)
Quote == "\""
Backslash == "\\"
Chars == {"a", Quote, Backslash}

\* the texts err.Error() can return
Texts == UNION {[1..n -> Chars] : n \in 1..MaxErrLen}

\* a Go error value: nil, or an error with its text
NilErr == [isNil |-> TRUE, text |-> <<>>]
Err(t) == [isNil |-> FALSE, text |-> t]
Errors == {NilErr} \cup {Err(t) : t \in Texts}

\* cmd.Command: the seven names of the switch and one that is none of them
Commands == {"set_play_mode", "play", "pause", "next", "previous",
             "next_play_mode", "activate_intelligent_mode", "stop"}

\* cmd.Args: the five mode names and one that is none of them
ArgNames == {"ordered", "list_loop", "single_loop", "list_random",
             "inf_random", "shuffle"}
ArgLists == UNION {[1..n -> ArgNames] : n \in 0..MaxArgs}

\* the inner switch on cmd.Args[0]; "" stands for its default case
ModeOf(a) ==
    CASE a = "ordered" -> "PmOrdered"
      [] a = "list_loop" -> "PmListLoop"
      [] a = "single_loop" -> "PmSingleLoop"
      [] a = "list_random" -> "PmListRandom"
      [] a = "inf_random" -> "PmInfRandom"
      [] OTHER -> ""

\* `{"status": "ok"}`
OkBody == <<"{", "status-ok", "}">>

\* fmt.Sprintf(`{"status": "error", "message": "%s"}`, text): the text is put
\* between the two quotes of the format as it is
ErrorBody(text) ==
    <<"{", "status-error", "message", Quote>> \o text \o <<Quote, "}">>

\* the three fixed messages
InvalidArgs == <<"invalid args">>
InvalidPlayMode == <<"invalid play mode">>
UnknownCommand == <<"unknown command">>

\* what the handler did: WriteHeader codes, bodies written, PlayerController
\* calls, and whether the deferred r.Body.Close() was registered (and so ran)
Reply(code, body, calls, closed) ==
    [hdr |-> <<code>>, body |-> <<body>>, calls |-> calls, closed |-> closed]

Ok(calls) == Reply(200, OkBody, calls, TRUE)

\* as set_play_mode, but len(cmd.Args) is not compared with 1: the first
\* argument is used when there is one
set_play_mode_FirstArg(r) ==
    IF Len(r.args) = 0
    THEN Reply(400, ErrorBody(InvalidArgs), <<>>, TRUE)
    ELSE IF ModeOf(r.args[1]) = ""
    THEN Reply(400, ErrorBody(InvalidPlayMode), <<>>, TRUE)
    ELSE IF ~r.playerErr.isNil
    THEN Reply(500, ErrorBody(r.playerErr.text),
               <<<<"SetPlayMode", ModeOf(r.args[1])>>>>, TRUE)
    ELSE Ok(<<<<"SetPlayMode", ModeOf(r.args[1])>>, <<"Rerender">>>>)

\* as set_play_mode, but Rerender is called before SetPlayMode
set_play_mode_RerenderFirst(r) ==
    IF Len(r.args) # 1
    THEN Reply(400, ErrorBody(InvalidArgs), <<>>, TRUE)
    ELSE IF ModeOf(r.args[1]) = ""
    THEN Reply(400, ErrorBody(InvalidPlayMode), <<>>, TRUE)
    ELSE IF ~r.playerErr.isNil
    THEN Reply(500, ErrorBody(r.playerErr.text),
               <<<<"Rerender">>, <<"SetPlayMode", ModeOf(r.args[1])>>>>, TRUE)
    ELSE Ok(<<<<"Rerender">>, <<"SetPlayMode", ModeOf(r.args[1])>>>>)

\* case "set_play_mode"
set_play_mode(r) ==
    IF Len(r.args) # 1
    THEN Reply(400, ErrorBody(InvalidArgs), <<>>, TRUE)
    ELSE IF ModeOf(r.args[1]) = ""
    THEN Reply(400, ErrorBody(InvalidPlayMode), <<>>, TRUE)
    ELSE IF ~r.playerErr.isNil
    THEN Reply(500, ErrorBody(r.playerErr.text),
               <<<<"SetPlayMode", ModeOf(r.args[1])>>>>, TRUE)
    ELSE Ok(<<<<"SetPlayMode", ModeOf(r.args[1])>>, <<"Rerender">>>>)

\* as activate_intelligent_mode, but without the return after the error
\* response: the ok response is written after it
activate_intelligent_mode_NoReturn(r) ==
    IF ~r.playerErr.isNil
    THEN [hdr |-> <<500, 200>>,
          body |-> <<ErrorBody(r.playerErr.text), OkBody>>,
          calls |-> <<<<"ActivateIntelligentMode">>>>, closed |-> TRUE]
    ELSE Ok(<<<<"ActivateIntelligentMode">>>>)

\* case "activate_intelligent_mode"
activate_intelligent_mode(r) ==
    IF ~r.playerErr.isNil
    THEN Reply(500, ErrorBody(r.playerErr.text),
               <<<<"ActivateIntelligentMode">>>>, TRUE)
    ELSE Ok(<<<<"ActivateIntelligentMode">>>>)

\* the five cases that call the player and write the ok response
SimpleCall(cmd) ==
    CASE cmd = "play" -> "Play"
      [] cmd = "pause" -> "Pause"
      [] cmd = "next" -> "Next"
      [] cmd = "previous" -> "Previous"
      [] cmd = "next_play_mode" -> "NextPlayMode"
      [] OTHER -> ""

\* the handler as a function of the request and of the error the player
\* returns from the one call that can fail
commandHandler(r) ==
    IF r.method # "POST"
    THEN [hdr |-> <<405>>, body |-> <<>>, calls |-> <<>>, closed |-> FALSE]
    ELSE IF ~r.decodeErr.isNil
    THEN Reply(400, ErrorBody(r.decodeErr.text), <<>>, FALSE)
    ELSE IF r.command = "set_play_mode" THEN set_play_mode(r)
    ELSE IF SimpleCall(r.command) # "" THEN Ok(<<<<SimpleCall(r.command)>>>>)
    ELSE IF r.command = "activate_intelligent_mode"
    THEN activate_intelligent_mode(r)
    ELSE Reply(400, ErrorBody(UnknownCommand), <<>>, TRUE)

\* the requests: fields the handler cannot look at have one value (nothing
\* is decoded of a non-POST request or of a body that does not parse; only
\* SetPlayMode and ActivateIntelligentMode return an error)
Request(m, de, cmd, args, pe) ==
    [method |-> m, decodeErr |-> de, command |-> cmd, args |-> args,
     playerErr |-> pe]

Requests ==
    {Request("GET", NilErr, "", <<>>, NilErr)}
    \cup {Request("POST", Err(t), "", <<>>, NilErr) : t \in Texts}
    \cup {Request("POST", NilErr, cmd, args, NilErr) :
             cmd \in Commands, args \in ArgLists}
    \cup {Request("POST", NilErr, cmd, args, Err(t)) :
             cmd \in {"set_play_mode", "activate_intelligent_mode"},
             args \in ArgLists, t \in Texts}

\* a request arrives and is served
commandHandler_Serve ==
    /\ cpc = "idle"
    /\ \E r \in Requests :
          /\ req' = r
          /\ resp' = commandHandler(r)
    /\ cpc' = "returned"
    /\ UNCHANGED <<mu, cvars, hvars, pvars, playerStatus, startSeq, regSeq,
                   sendOnClosed>>

\* the response has been sent; the next request can come
commandHandler_Next ==
    /\ cpc = "returned"
    /\ cpc' = "idle"
    /\ req' = NoRequest
    /\ resp' = NoResponse
    /\ UNCHANGED <<mu, cvars, hvars, pvars, playerStatus, startSeq, regSeq,
                   sendOnClosed>>

CmdNext ==
    \/ commandHandler_Serve
    \/ commandHandler_Next

CmdSpec == Init /\ [][CmdNext]_vars

(***************************************************************************)
(* What a client that decodes the response body as JSON gets.              *)
(***************************************************************************)
NotJSON == [ok |-> FALSE, val |-> <<>>, rest |-> <<>>]

\* reads a JSON string up to its closing quote: a backslash escapes the
\* quote or the backslash after it, and no other symbol of Chars
RECURSIVE ParseString(_, _)
ParseString(s, acc) ==
    IF s = <<>> THEN NotJSON
    ELSE IF Head(s) = Quote THEN [ok |-> TRUE, val |-> acc, rest |-> Tail(s)]
    ELSE IF Head(s) = Backslash
    THEN IF Len(s) >= 2 /\ s[2] \in {Quote, Backslash}
         THEN ParseString(Tail(Tail(s)), Append(acc, s[2]))
         ELSE NotJSON
    ELSE ParseString(Tail(s), Append(acc, Head(s)))

\* the decoded payload: its status and message, or "invalid" when the body is
\* no JSON object
Decode(body) ==
    IF body = OkBody THEN [status |-> "ok", message |-> <<>>]
    ELSE IF Len(body) >= 4 /\ SubSeq(body, 1, 4) = SubSeq(ErrorBody(<<>>), 1, 4)
    THEN LET p == ParseString(SubSeq(body, 5, Len(body)), <<>>)
         IN  IF p.ok /\ p.rest = <<"}">>
             THEN [status |-> "error", message |-> p.val]
             ELSE [status |-> "invalid", message |-> <<>>]
    ELSE [status |-> "invalid", message |-> <<>>]

Served == cpc = "returned"

\* the steps of the handlers and of the BroadcastStatus callers, as opposed
\* to what arrives from outside (requests, calls, cancellations, the player)
TaskStep ==
    \/ \E p \in Pubs : BroadcastStatus_Lock(p)
    \/ \E p \in Pubs, c \in Conns : BroadcastStatus_Send(p, c)
    \/ \E p \in Pubs : BroadcastStatus_Unlock(p)
    \/ \E c \in Conns : sseHandler_LockReg(c)
    \/ \E c \in Conns : sseHandler_Register(c)
    \/ \E c \in Conns : sseHandler_Initial(c)
    \/ \E c \in Conns : sseHandler_Relay(c)
    \/ \E c \in Conns : sseHandler_Done(c)
    \/ \E c \in Conns : sseHandler_DeferLock(c)
    \/ \E c \in Conns : sseHandler_DeferDelete(c)
    \/ \E c \in Conns : sseHandler_Close(c)

\* a handler in front of its select with nothing to receive and no
\* cancellation is waiting for the outside, as is a handler not running
Waiting(c) ==
    \/ hpc[c] \in {"idle", "done"}
    \/ hpc[c] = "loop" /\ ~cancelled[c] /\ chanBuf[c] = <<>>

\* C11: mu is held only at the insert, at the delete and during the range
\* loop, never by a handler at its select, at a write or at its status
\* query; while some task has work to do some task can take a step; and a
\* cancelled connection finishes its cleanup, also with calls in progress.
C11_HeldOnlyInCriticalSections ==
    /\ \A c \in Conns :
          mu = SseTask(c) => hpc[c] \in {"register", "deferDelete"}
    /\ \A p \in Pubs : mu = PubTask(p) => ppc[p] \in {"send", "unlock"}

C11_SomeTaskCanStep ==
    ((\E c \in Conns : ~Waiting(c)) \/ (\E p \in Pubs : ppc[p] # "idle"))
        => ENABLED TaskStep

C11_NoDeadlock ==
    /\ []C11_HeldOnlyInCriticalSections
    /\ []C11_SomeTaskCanStep
    /\ \A c \in Conns : cancelled[c] ~> (hpc[c] = "done")

\* every connection is cancelled and waits for mu in its cleanup while a
\* call is in the middle of its range loop
C11_Witness ==
    /\ \A c \in Conns : cancelled[c] /\ flusherOk[c] /\ hpc[c] = "deferLock"
    /\ \E p \in Pubs : ppc[p] = "send"

\* C12: a call that acquires mu while sseClients is empty makes no send
\* attempt, can unlock at once, and from its Lock to its Unlock no channel
\* buffer and no key of sseClients changes.
EmptyCall(p) == ppc[p] = "unlock" /\ sseClients = {}

C12_LockStep ==
    \A p \in Pubs :
        (ppc[p] = "lock" /\ ppc'[p] # "lock" /\ sseClients = {}) =>
            /\ ppc'[p] = "unlock" /\ todo'[p] = {}
            /\ chanBuf' = chanBuf /\ sseClients' = sseClients

C12_CallStep ==
    \A p \in Pubs :
        EmptyCall(p) => chanBuf' = chanBuf /\ sseClients' = sseClients

C12_CanReturn ==
    \A p \in Pubs : EmptyCall(p) => ENABLED BroadcastStatus_Unlock(p)

C12_EmptyPublishIsNoOp ==
    [][C12_LockStep /\ C12_CallStep]_vars /\ []C12_CanReturn

\* a call runs on the empty registry while a handler waits to register and
\* the other has left with a snapshot unread in its channel
C12_Witness ==
    \E p \in Pubs, c, d \in Conns :
        /\ EmptyCall(p)
        /\ hpc[c] = "lockReg"
        /\ hpc[d] = "done" /\ chanBuf[d] # <<>>

\* C17: a connection whose writer is no http.Flusher gets status 500, no
\* status query and no frame, never stands at the initial push or in the
\* relay loop, and is not in sseClients once its handler has returned.
C17_NoFlusherNoStream ==
    \A c \in Conns :
        (hpc[c] # "idle" /\ ~flusherOk[c]) =>
            /\ hpc[c] \notin {"initial", "loop"}
            /\ frames[c] = <<>>
            /\ hpc[c] \in {"deferLock", "deferDelete", "close", "done"}
                  => respStatus[c] = 500
            /\ hpc[c] = "done" => c \notin sseClients

\* such a handler has returned; a snapshot was sent to its channel while it
\* was registered and stays unread
C17_Witness ==
    \E c \in Conns :
        ~flusherOk[c] /\ hpc[c] = "done" /\ chanBuf[c] # <<>>

\* C19: a task is in a section that touches sseClients only while it holds
\* mu, at most one task is in such a section, sseClients changes only by
\* the insert or delete of the holder, and not during a range loop.
InSection ==
    {SseTask(c) : c \in {d \in Conns : hpc[d] \in {"register", "deferDelete"}}}
        \cup {PubTask(p) : p \in {q \in Pubs : ppc[q] \in {"send", "unlock"}}}

C19_OneHolder ==
    /\ Cardinality(InSection) <= 1
    /\ \A t \in InSection : mu = t

C19_AccessStep ==
    /\ sseClients' # sseClients =>
          \E c \in Conns :
              /\ mu = SseTask(c)
              /\ \/ sseClients' = sseClients \cup {c}
                 \/ sseClients' = sseClients \ {c}
    /\ \A p \in Pubs :
          /\ todo'[p] # todo[p] => (mu = PubTask(p) \/ mu' = PubTask(p))
          /\ (mu = PubTask(p) /\ mu' = PubTask(p)) => sseClients' = sseClients

C19_AccessUnderMutex == []C19_OneHolder /\ [][C19_AccessStep]_vars

\* a range loop is under way while one handler waits to insert and another
\* waits to delete
C19_Witness ==
    \E p \in Pubs, c, d \in Conns :
        /\ ppc[p] = "send" /\ todo[p] # {}
        /\ hpc[c] = "lockReg"
        /\ hpc[d] = "deferLock"

\* C20: every frame after the initial one is the snapshot of a call that
\* acquired mu after the channel was registered, no call has two frames on
\* a connection nor a frame and a pending message, and a channel holds at
\* most one pending snapshot.
FromCallWhileRegistered(c, m) ==
    \E id \in (regSeq[c] + 1)..pubSeq : m = Snapshot(id)

C20_FramesFromPublishesWhileRegistered ==
    \A c \in Conns :
        /\ Len(chanBuf[c]) <= ChanCap
        /\ \A i \in 2..Len(frames[c]) : FromCallWhileRegistered(c, frames[c][i])
        /\ \A i, j \in 2..Len(frames[c]) : i # j => frames[c][i] # frames[c][j]
        /\ \A k \in 1..Len(chanBuf[c]) :
              /\ FromCallWhileRegistered(c, chanBuf[c][k])
              /\ \A i \in 1..Len(frames[c]) : frames[c][i] # chanBuf[c][k]

\* a connection registered after the first call has written the snapshot of
\* the second, and the other has written both
C20_Witness ==
    \E c, d \in Conns :
        /\ regSeq[c] = 1 /\ Len(frames[c]) = 2
        /\ Len(frames[d]) = 3

(***************************************************************************)
(* Claims about commandHandler (CmdSpec)                                   *)
(***************************************************************************)
ModeNames == {"ordered", "list_loop", "single_loop", "list_random",
              "inf_random"}

\* the mode of types that each name stands for
ModeNamed ==
    [ordered |-> "PmOrdered", list_loop |-> "PmListLoop",
     single_loop |-> "PmSingleLoop", list_random |-> "PmListRandom",
     inf_random |-> "PmInfRandom"]

\* a POST request whose body was decoded and names this command
Dispatched(cmd) ==
    /\ Served
    /\ req.method = "POST"
    /\ req.decodeErr.isNil
    /\ req.command = cmd

ValidSetPlayMode ==
    /\ Dispatched("set_play_mode")
    /\ Len(req.args) = 1
    /\ req.args[1] \in ModeNames

OkResponse == resp.hdr = <<200>> /\ resp.body = <<OkBody>>

\* C13 as stated: every set_play_mode request with one valid argument gets
\* the ok response, after SetPlayMode with the mode of that name and then
\* Rerender were called.
C13_SetPlayModeAlwaysOk ==
    ValidSetPlayMode =>
        /\ OkResponse
        /\ resp.calls = <<<<"SetPlayMode", ModeNamed[req.args[1]]>>,
                          <<"Rerender">>>>

\* C13, amended: SetPlayMode is called with the mode of that name; when it
\* returns no error Rerender follows and the response is ok, and when it
\* returns an error the response is 500 with the error text and Rerender is
\* not called.
C13_SetPlayModeOkUnlessError ==
    ValidSetPlayMode =>
        IF req.playerErr.isNil
        THEN /\ OkResponse
             /\ resp.calls = <<<<"SetPlayMode", ModeNamed[req.args[1]]>>,
                               <<"Rerender">>>>
        ELSE /\ resp.hdr = <<500>>
             /\ resp.body = <<ErrorBody(req.playerErr.text)>>
             /\ resp.calls = <<<<"SetPlayMode", ModeNamed[req.args[1]]>>>>

\* list_random was asked for and set, and the UI was refreshed
C13_Witness ==
    /\ ValidSetPlayMode
    /\ req.args = <<"list_random">>
    /\ resp.calls = <<<<"SetPlayMode", "PmListRandom">>, <<"Rerender">>>>
    /\ OkResponse

\* C14: a set_play_mode request whose argument count is not 1, or whose one
\* argument is none of the five names, gets status 400 with one error
\* payload, and no PlayerController method is called.
C14_InvalidArgsRejected ==
    (/\ Dispatched("set_play_mode")
     /\ (Len(req.args) # 1 \/ req.args[1] \notin ModeNames)) =>
        /\ resp.hdr = <<400>>
        /\ Len(resp.body) = 1
        /\ Decode(resp.body[1]).status = "error"
        /\ resp.calls = <<>>

\* two arguments, the first a valid name: rejected
C14_Witness ==
    /\ Dispatched("set_play_mode")
    /\ req.args = <<"ordered", "list_loop">>
    /\ ~req.playerErr.isNil
    /\ resp.hdr = <<400>>
    /\ resp.body = <<ErrorBody(InvalidArgs)>>

\* the status the outcome of a request calls for
KnownCommands == {"set_play_mode", "play", "pause", "next", "previous",
                  "next_play_mode", "activate_intelligent_mode"}

Category(r) ==
    IF r.method # "POST" THEN 405
    ELSE IF ~r.decodeErr.isNil THEN 400
    ELSE IF r.command \notin KnownCommands THEN 400
    ELSE IF r.command = "set_play_mode"
            /\ (Len(r.args) # 1 \/ r.args[1] \notin ModeNames) THEN 400
    ELSE IF r.command \in {"set_play_mode", "activate_intelligent_mode"}
            /\ ~r.playerErr.isNil THEN 500
    ELSE 200

MessageTexts == Texts \cup {InvalidArgs, InvalidPlayMode, UnknownCommand}

\* the ok payload with 200, the error template around some text otherwise
BodyShape(code, body) ==
    IF code = 200 THEN body = OkBody
    ELSE \E t \in MessageTexts : body = ErrorBody(t)

C16_BodyClosedOnEveryPost ==
    (Served /\ req.method = "POST") => resp.closed

\* C18: when ActivateIntelligentMode returns an error the response is 500
\* with one error payload whose message, as a client decodes it, is the
\* error text, and no ok response; when it returns none the response is ok.
C18_ErrorTextIsTheMessage ==
    Dispatched("activate_intelligent_mode") =>
        /\ resp.calls = <<<<"ActivateIntelligentMode">>>>
        /\ IF req.playerErr.isNil
           THEN OkResponse
           ELSE /\ resp.hdr = <<500>>
                /\ Len(resp.body) = 1
                /\ Decode(resp.body[1]) =
                      [status |-> "error", message |-> req.playerErr.text]
====
